---- MODULE Spec2Model ----
(***************************************************************************)
(* SmartMarkdown: headline folding (smart_folding.py) and pandoc export    *)
(* (pandoc_render.py), two Sublime Text command handlers.                  *)
(*                                                                         *)
(* The view is owned by the host editor.  Its state is modelled by the     *)
(* buffer text (a sequence of lines), the list of folded regions and the   *)
(* selection.  A command run is one action.                                *)
(***************************************************************************)
EXTENDS Integers, Sequences, FiniteSets

\* ---------------------------------------------------------------- bounds
\* Lines of a buffer, regions of a selection, lines of the buffers in which
\* several regions are selected, tab characters a buffer may come to hold,
\* and the lines of the buffers in which tabs are inserted.
MaxLines == 4
MaxSel == 2
MaxMultiLines == 2
MaxTabs == 2
MaxTabLines == 1
\* Temporary files the export may leave behind
MaxTmpFiles == 4

\* ------------------------------------------------------------ host: text
\* Characters of the modelled buffers.
HASH == "#"
SPACE == " "
TAB == "\t"

\* A line is its characters plus the host's syntax scope: code = TRUE for a
\* line inside a block (fenced code, front matter) whose lines never have the
\* scope markup.heading.
Line(s, c) == [s |-> s, code |-> c]

PlainLines ==
  { Line(<<>>, FALSE), Line(<<"x">>, FALSE),
    Line(<<HASH, SPACE>>, FALSE), Line(<<HASH, HASH, SPACE>>, FALSE) }

CodeLines == { Line(<<HASH, SPACE>>, TRUE) }

\* sublime.Region(a, b); None is NoRegion.
Region(a, b) == [a |-> a, b |-> b]
NoRegion == Region(-1, -1)
Min(x, y) == IF x <= y THEN x ELSE y
Max(x, y) == IF x >= y THEN x ELSE y
Begin(r) == Min(r.a, r.b)
End(r) == Max(r.a, r.b)

\* Region.contains(region)
Contains(f, r) == Begin(f) <= Begin(r) /\ End(r) <= End(f)

\* Region.intersects(region)
Intersects(f, r) ==
  \/ Begin(f) = Begin(r) /\ End(f) = End(r)
  \/ Begin(r) > Begin(f) /\ Begin(r) < End(f)
  \/ End(r) > Begin(f) /\ End(r) < End(f)
  \/ Begin(f) > Begin(r) /\ Begin(f) < End(r)
  \/ End(f) > Begin(r) /\ End(f) < End(r)

RECURSIVE LineStart(_, _)
\* view.text_point(row, 0) for the 1-based line i of the buffer
LineStart(txt, i) ==
  IF i = 1 THEN 0 ELSE LineStart(txt, i - 1) + Len(txt[i - 1].s) + 1

LineEnd(txt, i) == LineStart(txt, i) + Len(txt[i].s)

\* view.size()
Size(txt) == LineEnd(txt, Len(txt))

\* view.rowcol(point)[0], 1-based
RowOf(txt, p) ==
  IF p >= Size(txt) THEN Len(txt)
  ELSE CHOOSE i \in 1..Len(txt) : LineStart(txt, i) <= p /\ p <= LineEnd(txt, i)

\* view.text_point(row, 0), clamped to the end of the buffer
TextPoint(txt, i) == IF i > Len(txt) THEN Size(txt) ELSE LineStart(txt, i)

RECURSIVE Hashes(_, _)
\* number of '#' at the start of s, from position k
Hashes(s, k) == IF k <= Len(s) /\ s[k] = HASH THEN 1 + Hashes(s, k + 1) ELSE 0

LevelOf(s, n) == IF n >= 1 /\ Len(s) > n /\ s[n + 1] \in {SPACE, TAB} THEN n ELSE 0

\* HEADLINE_PATTERN = ^(#+)\s.* : the level, 0 for None
Level(s) == LevelOf(s, Hashes(s, 1))

\* ------------------------------------------------------ headline module
\* headline.headline_and_level_at_point(view, point)[1]
LevelAt(txt, p) == Level(txt[RowOf(txt, p)].s)

HeadingScope(l) == Level(l.s) > 0 /\ ~l.code

\* headline.is_scope_headline(view, point): scope markup.heading
IsScopeHeadline(txt, p) == HeadingScope(txt[RowOf(txt, p)])

LeastOrZero(S) == IF S = {} THEN 0 ELSE CHOOSE i \in S : \A j \in S : i <= j

\* The first headline line that starts at or after start and whose level is
\* at most maxLevel (0: any level): its index, 0 for None.
FirstHeadline(txt, start, maxLevel) ==
  LeastOrZero({ i \in 1..Len(txt) :
                  /\ LineStart(txt, i) >= start
                  /\ HeadingScope(txt[i])
                  /\ (maxLevel = 0 \/ Level(txt[i].s) <= maxLevel) })

\* skip_headline_at_point: from a headline line the search starts on the next
\* line.
SkipPoint(txt, from, row) ==
  IF Level(txt[row].s) > 0 THEN LineEnd(txt, row) + 1 ELSE from

\* headline.find_headline(view, from_point, level, True, match_type,
\* skip_headline_at_point)
FindHeadline(txt, from, maxLevel, skip) ==
  FirstHeadline(txt,
                IF skip THEN SkipPoint(txt, from, RowOf(txt, from)) ELSE from,
                maxLevel)

NotBelow(nl, lvl) == nl > 0 /\ nl <= lvl

\* headline.is_content_empty_at_point(view, point): the next line is a
\* headline of the same or a higher level (the last line is its own next).
ContentEmptyAtRow(txt, row) ==
  NotBelow(Level(txt[RowOf(txt, TextPoint(txt, row + 1))].s), Level(txt[row].s))

EndPos(txt, nh) == IF nh # 0 THEN LineStart(txt, nh) - 1 ELSE Size(txt)

ContentFrom(txt, cs, lvl) == Region(cs, EndPos(txt, FindHeadline(txt, cs, lvl, FALSE)))

ContentOfRow(txt, row) ==
  IF Level(txt[row].s) = 0 \/ ContentEmptyAtRow(txt, row) THEN NoRegion
  ELSE ContentFrom(txt, TextPoint(txt, row + 1), Level(txt[row].s))

\* headline.region_of_content_of_headline_at_point(view, point)
RegionOfContent(txt, p) == ContentOfRow(txt, RowOf(txt, p))

\* ----------------------------------------------------- host: view calls
\* view.fold(region): the region joins the folded regions (an empty region
\* folds nothing).
ViewFold(fs, r) ==
  IF r.a # r.b THEN fs \cup {Region(Begin(r), End(r))} ELSE fs

\* view.unfold(region): every folded region that intersects it is unfolded.
ViewUnfold(fs, r) == { f \in fs : ~Intersects(f, r) }

InsertAt(s, col, c) == SubSeq(s, 1, col) \o <<c>> \o SubSeq(s, col + 1, Len(s))

InsertInRow(txt, row, p, c) ==
  [txt EXCEPT ![row] = Line(InsertAt(txt[row].s, p - LineStart(txt, row), c),
                            txt[row].code)]

\* view.insert(edit, point, char): the text after the insertion
InsertChar(txt, p, c) == InsertInRow(txt, RowOf(txt, p), p, c)

\* A selection region after an insertion of one character at p: a point at or
\* after p moves right.
ShiftSel(r, p) ==
  Region(IF r.a >= p THEN r.a + 1 ELSE r.a, IF r.b >= p THEN r.b + 1 ELSE r.b)

\* A folded region after an insertion of one character at p.
ShiftFold(f, p) ==
  Region(IF f.a >= p THEN f.a + 1 ELSE f.a, IF f.b > p THEN f.b + 1 ELSE f.b)

FirstOf(s) == CHOOSE x \in s : \A y \in s : Begin(x) <= Begin(y)

RECURSIVE SelSeq(_)
\* The regions of a selection in buffer order, as view.sel() iterates them.
SelSeq(s) == IF s = {} THEN <<>> ELSE <<FirstOf(s)>> \o SelSeq(s \ {FirstOf(s)})

\* Host calls are logged as records.
Call(op, r) == [op |-> op, r |-> r]

\* ------------------------------------------------- SmartFoldingCommand
\* Variant of is_region_totally_folded: a folded region that merely overlaps
\* the region counts (i.intersects(region) for i.contains(region)).
is_region_partly_folded(fs, r) ==
  \/ r = NoRegion
  \/ r.a = r.b
  \/ \E f \in fs : Intersects(f, r)

\* SmartFoldingCommand.is_region_totally_folded
is_region_totally_folded(fs, r) ==
  \/ r = NoRegion
  \/ r.a = r.b
  \/ \E f \in fs : Contains(f, r)

\* SmartFoldingCommand.fold
fold(st, r) ==
  [st EXCEPT !.folded = ViewFold(st.folded, r),
             !.calls = Append(st.calls, Call("fold", r))]

\* self.view.unfold(region) in unfold_yet_fold_subheads
unfold(st, r) ==
  [st EXCEPT !.folded = ViewUnfold(st.folded, r),
             !.calls = Append(st.calls, Call("unfold", r))]

\* One logged invocation of fold_or_unfold_headline_at_point on a headline:
\* the point, the content region, the folded regions before and after, and
\* what was done ("none", "fold" or "unfold").
Inv(p, r, pre, post, act) ==
  [pt |-> p, r |-> r, pre |-> pre, post |-> post, act |-> act]

\* return True, with the invocation logged
Matched(st, st1, p, r, act) ==
  [st1 EXCEPT !.matched = TRUE,
              !.invs = Append(st1.invs, Inv(p, r, st.folded, st1.folded, act))]

RECURSIVE fold_or_unfold_headline_at_point(_, _, _)
RECURSIVE FoldSubheads(_, _, _, _)

\* The loop of unfold_yet_fold_subheads over the lines i..to of the region.
FoldSubheads(txt, st, i, to) ==
  IF i > to THEN st
  ELSE FoldSubheads(txt,
         fold_or_unfold_headline_at_point(txt, st, TextPoint(txt, i)),
         i + 1, to)

\* SmartFoldingCommand.unfold_yet_fold_subheads
unfold_yet_fold_subheads(txt, st, r) ==
  FoldSubheads(txt, unfold(st, r), RowOf(txt, r.a), RowOf(txt, r.b))

\* fold_or_unfold_headline_at_point from the content region on
FoldOrUnfoldRegion(txt, st, p, r) ==
  IF r = NoRegion THEN Matched(st, st, p, r, "none")
  ELSE IF is_region_totally_folded(st.folded, r)
       THEN Matched(st, unfold_yet_fold_subheads(txt, st, r), p, r, "unfold")
       ELSE Matched(st, fold(st, r), p, r, "fold")

\* SmartFoldingCommand.fold_or_unfold_headline_at_point; st.matched is the
\* value returned.
fold_or_unfold_headline_at_point(txt, st, p) ==
  IF LevelAt(txt, p) = 0 \/ ~IsScopeHeadline(txt, p)
  THEN [st EXCEPT !.matched = FALSE]
  ELSE FoldOrUnfoldRegion(txt, st, p, RegionOfContent(txt, p))

\* if matched: ever_matched = True
EverMatched(ever, st1) == [st1 EXCEPT !.ever = ever \/ st1.matched]

RECURSIVE SmartLoop(_, _, _, _)
\* The first loop of run over the regions rs of the selection.
SmartLoop(txt, st, rs, k) ==
  IF k > Len(rs) THEN st
  ELSE SmartLoop(txt,
         EverMatched(st.ever, fold_or_unfold_headline_at_point(txt, st, rs[k].a)),
         rs, k + 1)

\* self.view.insert(edit, r.a, '\t')
InsertTab(v, p) ==
  [text |-> InsertChar(v.text, p, TAB),
   folded |-> { ShiftFold(f, p) : f \in v.folded },
   sel |-> { ShiftSel(r, p) : r \in v.sel },
   calls |-> Append(v.calls, Call("insert", Region(p, p)))]

RECURSIVE TabLoopSnapshot(_, _)
\* Variant of the second loop of run: the regions are read from a copy of the
\* selection taken before the first insertion.
TabLoopSnapshot(v, k) ==
  IF k > Cardinality(v.sel) THEN v
  ELSE TabLoopSnapshot(InsertTab(v, SelSeq(v.sel)[k].a - (k - 1)), k + 1)

RECURSIVE TabLoop(_, _)
\* The second loop of run: view.sel() is live, so the k-th region is read
\* after the earlier insertions have moved it.
TabLoop(v, k) ==
  IF k > Cardinality(v.sel) THEN v
  ELSE TabLoop(InsertTab(v, SelSeq(v.sel)[k].a), k + 1)

\* ------------------------------------------------ GlobalFoldingCommand
RECURSIVE GlobalWalk(_, _, _)

\* The while loop of is_global_folded goes on with the headline nh.
GlobalNext(txt, fs, nh) ==
  IF nh = 0 THEN TRUE ELSE GlobalWalk(txt, fs, LineStart(txt, nh))

\* The body of the while loop of is_global_folded: with a content region the
\* next round starts at its end, without one at the next headline.
GlobalStep(txt, fs, point, region) ==
  IF region # NoRegion
  THEN is_region_totally_folded(fs, region) /\ GlobalWalk(txt, fs, region.b)
  ELSE GlobalNext(txt, fs, FindHeadline(txt, point, 0, TRUE))

\* One round of the while loop of is_global_folded.
GlobalWalk(txt, fs, point) ==
  GlobalStep(txt, fs, point, RegionOfContent(txt, point))

\* GlobalFoldingCommand.is_global_folded
is_global_folded(txt, fs) == GlobalNext(txt, fs, FindHeadline(txt, 0, 0, FALSE))

\* GlobalFoldingCommand.unfold_all
unfold_all(txt, st) == unfold(st, Region(0, Size(txt)))

RECURSIVE FoldAllWalk(_, _, _)

\* if region: point = region.b
PointAfter(point, region) == IF region # NoRegion THEN region.b ELSE point

\* The while loop of fold_all goes on with the headline nh.
FoldAllNext(txt, st, nh) ==
  IF nh = 0 THEN st ELSE FoldAllWalk(txt, st, LineStart(txt, nh))

FoldAllStep(txt, st, point, region) ==
  FoldAllNext(txt,
              IF region # NoRegion THEN fold(st, region) ELSE st,
              FindHeadline(txt, PointAfter(point, region), 0, TRUE))

\* One round of the while loop of fold_all, with point on a headline.
FoldAllWalk(txt, st, point) ==
  FoldAllStep(txt, st, point, RegionOfContent(txt, point))

\* GlobalFoldingCommand.fold_all, up to the cursor adjustment
fold_all(txt, st) == FoldAllNext(txt, st, FindHeadline(txt, 0, 0, FALSE))

\* The first folded region, in buffer order, that contains r
FirstFoldAround(fs, r) ==
  CHOOSE f \in fs :
    /\ Contains(f, r)
    /\ \A g \in fs : Contains(g, r) =>
         \/ Begin(f) < Begin(g)
         \/ Begin(f) = Begin(g) /\ End(f) >= End(g)

CursorAtEnd(f) == Region(f.b, f.b)

AdjustRegion(fs, r) ==
  IF \E f \in fs : Contains(f, r) THEN CursorAtEnd(FirstFoldAround(fs, r)) ELSE r

\* GlobalFoldingCommand.adjust_cursors_and_view: a selection region inside a
\* folded region becomes a cursor at the end of that folded region.
adjust_cursors_and_view(fs, s) == { AdjustRegion(fs, r) : r \in s }

\* ---------------------------------------------------- PandocRenderCommand
\* A string is a sequence of pieces, each "." and "/" a piece of its own; None
\* (view.file_name() of a buffer never saved) is NoFile.
NoFile == <<>>

\* A string of one piece
Word(w) == <<w>>

FileNames ==
  { NoFile, <<"a", ".", "md">>, <<"a">>, <<".", "a">>,
    <<"d", "/", "a", ".", "b", ".", "md">> }

Platforms == { "windows", "osx", "linux", "other" }

Targets == { "pdf", "html", "docx", "odt" }

\* the targets run accepts (the list in its first line)
Supported == { "html", "docx", "pdf" }

\* p.rfind(c), 1-based, 0 when c is not in p
LastIndex(p, c) == LeastOrZero({ i \in 1..Len(p) : p[i] = c /\ \A j \in (i + 1)..Len(p) : p[j] # c })

SplitAt(p, sep, dot) ==
  IF dot > sep /\ \E j \in (sep + 1)..(dot - 1) : p[j] # "."
  THEN SubSeq(p, 1, dot - 1) ELSE p

\* os.path.splitext(p)[0]
SplitextRoot(p) == SplitAt(p, LastIndex(p, "/"), LastIndex(p, "."))

\* suffix = "." + target
Suffix(target) == <<".", target>>

\* The name of the k-th temporary file: tempfile.NamedTemporaryFile(
\* delete=False, suffix=suffix).name
TmpName(k, suffix) == <<"tmp", "/">> \o [i \in 1..k |-> "t"] \o suffix

\* The name of the temporary file a run writes the buffer to, when k temporary
\* files exist
TmpMd(k) == TmpName(k + 1, <<".", "md">>)

\* Variant of pandoc_args: html is written with pandoc's html writer.
pandoc_args_html4(target) ==
  CASE target = "pdf" -> <<>>
    [] target = "html" -> <<Word("-t"), Word("html")>>
    [] target = "docx" -> <<Word("-t"), Word("docx")>>

\* PandocRenderCommand.pandoc_args
pandoc_args(target) ==
  CASE target = "pdf" -> <<>>
    [] target = "html" -> <<Word("-t"), Word("html5")>>
    [] target = "docx" -> <<Word("-t"), Word("docx")>>

\* cmd in run_pandoc
PandocCmd(infile, outfile, args) ==
  <<Word("pandoc")>> \o args \o <<infile, Word("-o"), outfile>>

\* Calls outside the view are logged as records: what is called, with which
\* list of strings.
Ext(op, argv) == [op |-> op, argv |-> argv]

\* PandocRenderCommand.run_pandoc: subprocess.call returns, or raises and the
\* error is shown.
run_pandoc(calls, infile, outfile, args, raises) ==
  IF raises
  THEN calls \o << Ext("subprocess.call", PandocCmd(infile, outfile, args)),
                   Ext("error_message", <<>>) >>
  ELSE Append(calls, Ext("subprocess.call", PandocCmd(infile, outfile, args)))

\* PandocRenderCommand.open_result
open_result(calls, outfile, target, platform) ==
  IF target = "html" THEN Append(calls, Ext("open_new_tab", <<outfile>>))
  ELSE IF platform = "windows" THEN Append(calls, Ext("startfile", <<outfile>>))
  ELSE IF platform = "osx" THEN Append(calls, Ext("subprocess.call", <<Word("open"), outfile>>))
  ELSE IF platform = "linux" THEN Append(calls, Ext("subprocess.call", <<Word("xdg-open"), outfile>>))
  ELSE calls

RECURSIVE Contents(_, _)
\* view.substr(sublime.Region(0, view.size())): the lines i.. joined by "\n"
Contents(txt, i) ==
  IF i = Len(txt) THEN txt[i].s
  ELSE txt[i].s \o <<"\n">> \o Contents(txt, i + 1)

\* run from "args = self.pandoc_args(target)" on
RunFromArgs(calls, infile, outfile, a, raises, platform) ==
  IF a.openAfter
  THEN open_result(run_pandoc(calls, infile, outfile, pandoc_args(a.target), raises),
                   outfile, a.target, platform)
  ELSE run_pandoc(calls, infile, outfile, pandoc_args(a.target), raises)

\* --------------------------------------------------------------- state
VARIABLES
  text,    \* the buffer
  folded,  \* view.folded_regions()
  sel,     \* view.sel()
  last,    \* the last command run: its inputs, the state it started from
           \* and the host calls it made
  env      \* outside the view: view.file_name(), sublime.platform() and the
           \* number of temporary files created so far

vars == <<text, folded, sel, last, env>>

AllLines == PlainLines \cup CodeLines

\* A '#' line without heading scope lies inside a block that an earlier line
\* opened.
WellScoped(t) ==
  \A i \in 1..Len(t) :
    t[i].code => (i > 1 /\ (t[i - 1].code \/ t[i - 1].s = <<"x">>))

Buffers ==
  { t \in UNION { [1..n -> AllLines] : n \in 1..MaxLines } : WellScoped(t) }

Separate(r1, r2) == End(r1) < Begin(r2) \/ End(r2) < Begin(r1)

\* The regions a selection is drawn from: a cursor at the start and at the end
\* of every line, and the backward selection of a line break (a on the next
\* line, b on the line before).
SelRegions(t) ==
  { Region(LineStart(t, i), LineStart(t, i)) : i \in 1..Len(t) } \cup
  { Region(LineEnd(t, i), LineEnd(t, i)) : i \in 1..Len(t) } \cup
  { Region(LineStart(t, i), LineStart(t, i) - 1) : i \in 2..Len(t) }

RECURSIVE SelectionsOf(_, _)
\* The selections of exactly k regions, no two of which touch
SelectionsOf(t, k) ==
  IF k = 1 THEN { {r} : r \in SelRegions(t) }
  ELSE { x \in { s \cup {r} : s \in SelectionsOf(t, k - 1), r \in SelRegions(t) } :
           /\ Cardinality(x) = k
           /\ \A r1 \in x, r2 \in x : r1 # r2 => Separate(r1, r2) }

Selections(t) ==
  UNION { SelectionsOf(t, k) :
            k \in 1..(IF Len(t) <= MaxMultiLines THEN MaxSel ELSE 1) }

RECURSIVE CountTabs(_, _)
CountTabs(s, k) ==
  IF k > Len(s) THEN 0
  ELSE (IF s[k] = TAB THEN 1 ELSE 0) + CountTabs(s, k + 1)

RECURSIVE NumTabs(_, _)
\* Tab characters in the lines i.. of the buffer
NumTabs(t, i) ==
  IF i > Len(t) THEN 0 ELSE CountTabs(t[i].s, 1) + NumTabs(t, i + 1)

Last(cmd, branch, calls, invs) ==
  [cmd |-> cmd, sel |-> sel, text |-> text, pre |-> folded, branch |-> branch,
   calls |-> calls, invs |-> invs]

NoLast ==
  [cmd |-> "none", sel |-> {}, text |-> <<>>, pre |-> {}, branch |-> "none",
   calls |-> <<>>, invs |-> <<>>]

Home == {Region(0, 0)}

St0 == [folded |-> folded, calls |-> <<>>, invs |-> <<>>,
        matched |-> FALSE, ever |-> FALSE]

\* A view on a buffer just opened: nothing folded, the cursor at its start.
Init ==
  /\ text \in Buffers
  /\ folded = {}
  /\ sel = Home
  /\ last = NoLast
  /\ env = [file_name |-> NoFile, platform |-> "linux", tmp |-> 0]

\* The user moves the cursor to the start of the buffer.
MoveToStart ==
  /\ sel' = Home
  /\ last' = NoLast
  /\ UNCHANGED <<text, folded, env>>

\* The user, from the start of the buffer, places the cursors.
Select ==
  /\ sel = Home
  /\ last = NoLast
  /\ \E s \in Selections(text) : sel' = s
  /\ UNCHANGED <<text, folded, last, env>>

\* SmartFoldingCommand.run
SmartFolding ==
  /\ UNCHANGED env
  /\ \E st \in { SmartLoop(text, St0, SelSeq(sel), 1) } :
       IF st.ever
       THEN /\ folded' = st.folded
            /\ last' = Last("smart", "fold", st.calls, st.invs)
            /\ UNCHANGED <<text, sel>>
       ELSE /\ Len(text) <= MaxTabLines
            /\ NumTabs(text, 1) + Cardinality(sel) <= MaxTabs
            /\ \E v \in { TabLoop([text |-> text, folded |-> st.folded,
                                   sel |-> sel, calls |-> st.calls], 1) } :
                 /\ text' = v.text
                 /\ folded' = v.folded
                 /\ sel' = v.sel
                 /\ last' = Last("smart", "tab", v.calls, st.invs)

\* GlobalFoldingCommand.run
GlobalFolding ==
  /\ UNCHANGED env
  /\ IF is_global_folded(text, folded)
     THEN \E st \in { unfold_all(text, St0) } :
            /\ folded' = st.folded
            /\ last' = Last("global", "unfold_all", st.calls, <<>>)
            /\ UNCHANGED <<text, sel>>
     ELSE \E st \in { fold_all(text, St0) } :
            /\ folded' = st.folded
            /\ sel' = adjust_cursors_and_view(st.folded, sel)
            /\ last' = Last("global", "fold_all", st.calls, <<>>)
            /\ UNCHANGED text

Next == MoveToStart \/ Select \/ SmartFolding \/ GlobalFolding

Spec == Init /\ [][Next]_vars

\* The arguments of a run of PandocRenderCommand
PandocArgs ==
  [target : Targets, openAfter : BOOLEAN, saveResult : BOOLEAN]

PandocLast(a, branch, calls) ==
  [cmd |-> "pandoc", args |-> a, branch |-> branch, calls |-> calls,
   file_name |-> env.file_name, contents |-> Contents(text, 1), tmp |-> env.tmp]

\* tmp_md.write(contents) after tempfile.NamedTemporaryFile(suffix=".md")
WriteTmp == << Ext("write", << TmpMd(env.tmp), Contents(text, 1) >>) >>

\* PandocRenderCommand.run with the arguments a; raises tells whether
\* subprocess.call raises (pandoc cannot be executed).
PandocRun(a, raises) ==
  /\ env.tmp + 2 <= MaxTmpFiles
  /\ UNCHANGED <<text, folded, sel>>
  /\ IF a.target \notin Supported
     THEN /\ last' = PandocLast(a, "raise", <<>>)
          /\ UNCHANGED env
     ELSE IF a.saveResult
     THEN IF env.file_name = NoFile
          THEN \* os.path.splitext(None) raises
               /\ last' = PandocLast(a, "raise", WriteTmp)
               /\ env' = [env EXCEPT !.tmp = env.tmp + 1]
          ELSE /\ last' = PandocLast(a, "done",
                            RunFromArgs(WriteTmp,
                                        TmpMd(env.tmp),
                                        SplitextRoot(env.file_name) \o Suffix(a.target),
                                        a, raises, env.platform))
               /\ env' = [env EXCEPT !.tmp = env.tmp + 1]
     ELSE /\ last' = PandocLast(a, "done",
                       RunFromArgs(WriteTmp,
                                   TmpMd(env.tmp),
                                   TmpName(env.tmp + 2, Suffix(a.target)),
                                   a, raises, env.platform))
          /\ env' = [env EXCEPT !.tmp = env.tmp + 2]

PandocRender == \E a \in PandocArgs, raises \in BOOLEAN : PandocRun(a, raises)

\* A markdown view, saved under a name or never saved, on some platform.
InitPandoc ==
  /\ text \in { t \in Buffers : Len(t) = 1 }
  /\ folded = {}
  /\ sel = Home
  /\ last = NoLast
  /\ env \in [file_name : FileNames, platform : Platforms, tmp : {0}]

NextPandoc == PandocRender

SpecPandoc == InitPandoc /\ [][NextPandoc]_vars

\* ---------------------------------------------------------- properties
\* The run logged in last is a SmartFolding run.
IsSmart == last.cmd = "smart"

\* The run logged in last is a GlobalFolding run.
IsGlobal == last.cmd = "global"

Invs == { last.invs[k] : k \in 1..Len(last.invs) }

Calls == { last.calls[k] : k \in 1..Len(last.calls) }

\* The code's test for "point p is on a headline" (smart_folding.py line 49)
OnHeadline(t, p) == LevelAt(t, p) > 0 /\ IsScopeHeadline(t, p)

SomeFoldContains(fs, r) == \E f \in fs : Contains(f, r)

\* C1: an invocation of fold_or_unfold_headline_at_point on a headline whose
\* content region R is not empty unfolds R if and only if a folded region of
\* the view contains R; otherwise it folds R, and R is totally folded
\* afterwards.
C1_UnfoldIffTotallyFolded ==
  IsSmart =>
    \A i \in Invs :
      (i.r # NoRegion /\ i.r.a # i.r.b) =>
        /\ (i.act = "unfold") <=> SomeFoldContains(i.pre, i.r)
        /\ i.act = "unfold" => Call("unfold", i.r) \in Calls
        /\ i.act # "unfold" =>
             /\ i.act = "fold"
             /\ Call("fold", i.r) \in Calls
             /\ SomeFoldContains(i.post, i.r)

\* C1 witness: SmartFolding has folded a headline whose content was partly
\* folded (a subheadline's content was folded, the headline's was not).
C1_Witness ==
  /\ IsSmart
  /\ \E i \in Invs :
       /\ i.act = "fold"
       /\ i.r.a # i.r.b
       /\ \E f \in i.pre : Intersects(f, i.r) /\ ~Contains(f, i.r)
       /\ SomeFoldContains(folded, i.r)

\* The lines of the content region r of buffer t that are headlines
Subheads(t, r) ==
  { j \in RowOf(t, r.a)..RowOf(t, r.b) : HeadingScope(t[j]) }

\* The fold state of the headline on line j
HeadFolded(t, fs, j) == is_region_totally_folded(fs, ContentOfRow(t, j))

TopInv(l) == l.invs[Len(l.invs)]

\* SmartFolding with one cursor has folded a headline (the run logged in
\* last), and the step taken is SmartFolding with the same cursor, which
\* unfolds that headline.
FoldThenUnfold ==
  /\ IsSmart /\ last.branch = "fold"
  /\ Cardinality(last.sel) = 1
  /\ TopInv(last).act = "fold"
  /\ last'.cmd = "smart" /\ last'.branch = "fold"
  /\ last'.sel = last.sel
  /\ TopInv(last').act = "unfold"
  /\ TopInv(last').r = TopInv(last).r

\* C2: when SmartFolding folds a headline and the next SmartFolding on the same
\* headline unfolds it, every subheadline has afterwards the fold state it had
\* before the headline was folded.
C2_SubheadFoldStatePreserved ==
  [][ FoldThenUnfold =>
        \A j \in Subheads(text, TopInv(last).r) :
          HeadFolded(text, folded', j) <=> HeadFolded(text, last.pre, j) ]_vars

\* Every headline's content region is totally folded (an empty content and a
\* buffer without headline count as folded).
AllHeadlinesFolded(t, fs) ==
  \A j \in 1..Len(t) : HeadingScope(t[j]) => HeadFolded(t, fs, j)

RECURSIVE WithTabs(_, _)
\* The buffer t with one tab inserted at each point of ps
WithTabs(t, ps) ==
  IF ps = {} THEN t
  ELSE WithTabs(InsertChar(t, CHOOSE p \in ps : \A q \in ps : q <= p, TAB),
                ps \ { CHOOSE p \in ps : \A q \in ps : q <= p })

\* C4 as claimed: SmartFolding inserts one tab at the point a of every
\* selection region that is not on a headline line, and none for a region on
\* a headline, whatever the other regions are on.
C4_TabPerNonHeadlineRegion ==
  IsSmart =>
    text = WithTabs(last.text,
                    { r.a : r \in { x \in last.sel : ~OnHeadline(last.text, x.a) } })

\* C4 amended: SmartFolding inserts one tab at the point a of every selection
\* region when no region of the selection is on a headline line, and inserts
\* no tab at all when some region is.
C4_TabsOnlyIfNoRegionOnHeadline ==
  IsSmart =>
    /\ text = IF \E r \in last.sel : OnHeadline(last.text, r.a)
              THEN last.text
              ELSE WithTabs(last.text, { r.a : r \in last.sel })
    /\ Cardinality({ k \in 1..Len(last.calls) : last.calls[k].op = "insert" })
         = IF \E r \in last.sel : OnHeadline(last.text, r.a)
           THEN 0 ELSE Cardinality(last.sel)

\* C4 witness: SmartFolding has inserted a tab for each of several regions.
C4_Witness ==
  /\ IsSmart
  /\ last.branch = "tab"
  /\ Cardinality(last.sel) >= 2
  /\ NumTabs(text, 1) = NumTabs(last.text, 1) + Cardinality(last.sel)

\* The run logged in last is a PandocRender run for a supported target.
IsPandoc == last.cmd = "pandoc" /\ last.args.target \in {"pdf", "html", "docx"}

\* The places in the log of the invocations of pandoc
PandocCalls ==
  { k \in 1..Len(last.calls) :
      /\ last.calls[k].op = "subprocess.call"
      /\ last.calls[k].argv[1] = Word("pandoc") }

\* The log entry c opens a result.
IsOpen(c) ==
  \/ c.op \in {"open_new_tab", "startfile"}
  \/ c.op = "subprocess.call" /\ c.argv[1] \in {Word("open"), Word("xdg-open")}

\* The argument list the claim gives for a target
ClaimedArgs(target) ==
  CASE target = "pdf" -> <<>>
    [] target = "html" -> <<Word("-t"), Word("html5")>>
    [] target = "docx" -> <<Word("-t"), Word("docx")>>

EndsIn(p, q) == Len(p) >= Len(q) /\ SubSeq(p, Len(p) - Len(q) + 1, Len(p)) = q

\* The run logged in last has invoked pandoc exactly once, on the temporary
\* file holding the buffer, with the claimed command, and has opened a result
\* only if openAfter is set and only after that invocation.
OnePandocCall ==
  \E k \in 1..Len(last.calls) :
    /\ PandocCalls = {k}
    /\ \E j \in 1..(k - 1) :
         last.calls[j] = Ext("write", << TmpMd(last.tmp), last.contents >>)
    /\ \E out \in { last.calls[k].argv[Len(last.calls[k].argv)] } :
         /\ last.calls[k].argv =
              <<Word("pandoc")>> \o ClaimedArgs(last.args.target)
                \o << TmpMd(last.tmp), Word("-o"), out >>
         /\ EndsIn(out, <<".", last.args.target>>)
         /\ \A j \in 1..Len(last.calls) :
              IsOpen(last.calls[j]) =>
                /\ last.args.openAfter
                /\ j > k
                /\ last.calls[j].argv[Len(last.calls[j].argv)] = out

\* C5 as claimed: for every supported target, run invokes pandoc exactly once
\* with ['pandoc'] + A + [input file, '-o', output file], the output name ends
\* in '.' + target, and the result is opened only when openAfter is set and
\* only after the invocation.
C5_OnePandocCallPerRun == IsPandoc => OnePandocCall

\* The run stops at os.path.splitext(None): saveResult on a buffer never saved.
UnsavedSave == last.args.saveResult /\ last.file_name = NoFile

\* C5 amended: the same, except that a run with saveResult set on a buffer
\* that has no file name raises before it invokes or opens anything.
C5_OnePandocCallUnlessUnsaved ==
  IsPandoc =>
    IF UnsavedSave
    THEN last.branch = "raise" /\ PandocCalls = {} /\ \A k \in 1..Len(last.calls) : ~IsOpen(last.calls[k])
    ELSE OnePandocCall

\* C5 witness: an export to html beside the saved buffer has run pandoc and
\* then opened the result.
C5_Witness ==
  /\ IsPandoc
  /\ last.args.target = "html"
  /\ last.args.saveResult
  /\ last.file_name = <<"d", "/", "a", ".", "b", ".", "md">>
  /\ Len(last.calls) = 3
  /\ last.calls[2].argv[6] = <<"d", "/", "a", ".", "b", ".", "html">>
  /\ IsOpen(last.calls[3])

====
